---------------------------- MODULE Spec2Model ----------------------------
(***************************************************************************)
(* A model of the nameof crate (src/src/lib.rs): the macro_rules! macros   *)
(* name_of!, name_of_type! and tag_of!.                                    *)
(*                                                                         *)
(* One behaviour is one macro invocation going through the compiler:       *)
(*   Invoke    the caller writes  mac!( src )  at a site whose scope is    *)
(*             the declarations below;                                     *)
(*   Expand    the macro_rules matcher tries the rules of the macro in     *)
(*             source order and selects the first whose pattern matches;   *)
(*   Validate  the compiler checks the expansion of the selected rule      *)
(*             (the never-called closure and the result expression);       *)
(*   Evaluate  the result expression is evaluated.                         *)
(* The result of the value-bearing rule of tag_of! is computed when the    *)
(* expansion runs, one statement after the other:                          *)
(*   BuildClosure  let _ = || { ... };                                     *)
(*   FormatArg     one element of  vec![format!("{:?}", $value), ...]      *)
(*   Assemble      format!("{}({})", variant_name, values.join(", "))      *)
(* A failure of Expand or Validate is a compilation error: no string.      *)
(*                                                                         *)
(* Source text is a sequence of lexemes; the lexeme " " is one blank.      *)
(*                                                                         *)
(* The layout of the output of stringify! is not fixed by the language: a  *)
(* compiler prints a `ty` fragment either from the parsed type or from its *)
(* tokens with the spacing of the source. `printer` is the compiler's      *)
(* choice, the same for a whole build.                                     *)
(***************************************************************************)
EXTENDS Integers, Sequences, FiniteSets, TLC

VARIABLES printer, mac, src, pc, rule, value, values, evaluated, constructed

vars == <<printer, mac, src, pc, rule, value, values, evaluated, constructed>>

-----------------------------------------------------------------------------
(* Bounds of the enumerated invocations.                                   *)

\* Nesting depth of generic argument lists in the enumerated types.
MaxNest == 2
\* Longest argument list of a value-bearing tag_of! invocation.
MaxArgs == 3

-----------------------------------------------------------------------------
(* Lexemes, tokens and strings.                                            *)

Blank == " "

Keywords == {"type", "const", "in"}

Puncts == {"::", "(", ")", "{", "}", "..", ",", "<", ">", "&", "."}

\* Literal tokens and the values they denote: the type and the text.
LiteralValue ==
    [ lit \in {"42", "7", "\"test\""} |->
        CASE lit = "42"       -> [ty |-> "i32",  text |-> "42"]
          [] lit = "7"        -> [ty |-> "i32",  text |-> "7"]
          [] lit = "\"test\"" -> [ty |-> "&str", text |-> "test"] ]

Literals == DOMAIN LiteralValue

\* The tokens of a source text: the lexer drops the blanks.
Tokens(s) == SelectSeq(s, LAMBDA l : l # Blank)

RECURSIVE Concat(_)
Concat(s) == IF s = <<>> THEN "" ELSE Head(s) \o Concat(Tail(s))

\* The text as the caller typed it.
Spelling(s) == Concat(s)

\* The index of the delimiter closing the one opened at i, 0 when none.
RECURSIVE CloseFrom(_, _, _)
CloseFrom(toks, j, depth) ==
    IF j > Len(toks) THEN 0
    ELSE IF toks[j] \in {"(", "{"} THEN CloseFrom(toks, j + 1, depth + 1)
    ELSE IF toks[j] \in {")", "}"}
         THEN IF depth = 1 THEN j ELSE CloseFrom(toks, j + 1, depth - 1)
    ELSE CloseFrom(toks, j + 1, depth)

CloseOf(toks, i) == CloseFrom(toks, i + 1, 1)

\* A macro invocation's argument is a sequence of token trees: every
\* delimiter is closed, in order.
RECURSIVE BalancedFrom(_, _)
BalancedFrom(toks, i) ==
    IF i > Len(toks) THEN TRUE
    ELSE IF toks[i] \in {")", "}"} THEN FALSE
    ELSE IF toks[i] \in {"(", "{"}
         THEN LET c == CloseOf(toks, i)
              IN  /\ c # 0
                  /\ (toks[i] = "(") = (toks[c] = ")")
                  /\ BalancedFrom(SubSeq(toks, i + 1, c - 1), 1)
                  /\ BalancedFrom(toks, c + 1)
    ELSE BalancedFrom(toks, i + 1)

Balanced(toks) == BalancedFrom(toks, 1)

-----------------------------------------------------------------------------
(* Fragment matchers of macro_rules!:  ident, ty, expr.                    *)
(* A fragment that cannot begin at the current token makes the rule fail   *)
(* (the next rule is tried); a fragment that begins and then does not      *)
(* parse aborts the whole expansion.                                       *)

\* $x:ident matches any identifier, keywords included.
IsIdent(t) == t \notin Puncts /\ t \notin Literals /\ t # Blank

\* An identifier that is not a reserved word.
IsName(t) == IsIdent(t) /\ t \notin Keywords

CanBeginType(t) == IsName(t) \/ t \in {"&", "<", "::", "("}

CanBeginExpr(t) == IsName(t) \/ t \in Literals \/ t \in {"..", "(", "{", "&", "<", "::"}

\* The index after the type that starts at i, 0 when no type parses there.
\* Types:  & ty  |  Name  |  Name < ty , ... , ty >
RECURSIVE TyEnd(_, _), TyArgsEnd(_, _)
TyEnd(toks, i) ==
    IF i > Len(toks) THEN 0
    ELSE IF toks[i] = "&" THEN TyEnd(toks, i + 1)
    ELSE IF ~IsName(toks[i]) THEN 0
    ELSE IF i + 1 <= Len(toks) /\ toks[i + 1] = "<" THEN TyArgsEnd(toks, i + 2)
    ELSE i + 1

TyArgsEnd(toks, i) ==
    LET j == TyEnd(toks, i)
    IN  IF j = 0 \/ j > Len(toks) THEN 0
        ELSE IF toks[j] = "," THEN TyArgsEnd(toks, j + 1)
        ELSE IF toks[j] = ">" THEN j + 1
        ELSE 0

\* The index after the expression that starts at i, 0 when none parses.
\* Expressions:  ..  |  primary { . method ( ) }   with primary a literal
\* or a name.
RECURSIVE PostfixEnd(_, _)
PostfixEnd(toks, j) ==
    IF j <= Len(toks) /\ toks[j] = "."
    THEN IF /\ j + 3 <= Len(toks)
            /\ IsName(toks[j + 1])
            /\ toks[j + 2] = "("
            /\ toks[j + 3] = ")"
         THEN PostfixEnd(toks, j + 4)
         ELSE 0
    ELSE j

ExprEnd(toks, i) ==
    IF i > Len(toks) THEN 0
    ELSE IF toks[i] = ".." THEN i + 1
    ELSE IF IsName(toks[i]) \/ toks[i] \in Literals THEN PostfixEnd(toks, i + 1)
    ELSE 0

\* The three outcomes of trying one rule on an input.
Match == "match"
Fail  == "fail"
Abort == "abort"

\* `$t:ty` followed by the end of the input, from token i on.
MatchTyToEnd(toks, i) ==
    IF i > Len(toks) \/ ~CanBeginType(toks[i]) THEN Fail
    ELSE LET j == TyEnd(toks, i)
         IN  IF j = 0 THEN Abort
             ELSE IF j = Len(toks) + 1 THEN Match
             ELSE Fail

\* `$($value:expr),+` followed by the end of the group, on the tokens
\* toks[i .. last].
RECURSIVE MatchExprList(_, _, _)
MatchExprList(toks, i, last) ==
    IF i > last \/ ~CanBeginExpr(toks[i]) THEN Fail
    ELSE LET j == ExprEnd(SubSeq(toks, 1, last), i)
         IN  IF j = 0 THEN Abort
             ELSE IF j = last + 1 THEN Match
             ELSE IF toks[j] = "," THEN MatchExprList(toks, j + 1, last)
             ELSE Fail

\* The argument expressions of a matched list, as token sequences.
RECURSIVE SplitExprs(_, _, _)
SplitExprs(toks, i, last) ==
    IF i > last THEN <<>>
    ELSE LET j == ExprEnd(SubSeq(toks, 1, last), i)
         IN  <<SubSeq(toks, i, j - 1)>> \o SplitExprs(toks, j + 1, last)

\* stringify! of an identifier: its text.
StringifyIdent(n) == n

\* The two ways a compiler prints a `ty` fragment.
Printers == {"ast", "tokens"}

\* From the parsed type: the tokens, one blank after each comma.
RECURSIVE PrintTy(_)
PrintTy(ty) ==
    IF ty = <<>> THEN ""
    ELSE IF Head(ty) = "," THEN ", " \o PrintTy(Tail(ty))
    ELSE Head(ty) \o PrintTy(Tail(ty))

\* The lexemes without the blanks they start with.
RECURSIVE DropBlanks(_)
DropBlanks(s) ==
    IF s # <<>> /\ Head(s) = Blank THEN DropBlanks(Tail(s)) ELSE s

\* From the tokens and their spacing: tokens that touch in the source
\* touch in the output, tokens apart in the source are one blank apart.
RECURSIVE PrintTokens(_)
PrintTokens(s) ==
    IF s = <<>> THEN ""
    ELSE IF Head(s) = Blank
         THEN IF DropBlanks(s) = <<>> THEN "" ELSE " " \o PrintTokens(DropBlanks(s))
    ELSE Head(s) \o PrintTokens(Tail(s))

\* StringifyTy printing the source text as it is, blanks included.
StringifyTyVerbatim(ty, p) == Concat(ty)

\* stringify! of a type given by its lexemes.
StringifyTy(ty, p) ==
    IF p = "ast" THEN PrintTy(Tokens(ty)) ELSE PrintTokens(DropBlanks(ty))

\* The lexemes after the k-th token, from the next token on.
RECURSIVE AfterToken(_, _)
AfterToken(s, k) ==
    IF k = 0 THEN DropBlanks(s)
    ELSE AfterToken(Tail(DropBlanks(s)), k - 1)

-----------------------------------------------------------------------------
(* The declarations in scope at the invocation site: those of the crate's  *)
(* tests and examples, and the enumerated ones marked (enumerated).        *)

\* Type namespace: the number of generic parameters of each declared type.
TypeArity ==
    [ t \in {"i32", "String", "TestStruct", "TestGenericStruct",
             "TestGenericStructMultiType", "TestEnum", "Message"} |->
        CASE t = "TestGenericStruct"          -> 1
          [] t = "TestGenericStructMultiType" -> 2
          [] OTHER                            -> 0 ]

\* The declared fields of each struct.
Fields(t) ==
    CASE t = "TestStruct"                 -> {"test_field"}
      [] t = "TestGenericStruct"          -> {"test_field"}
      [] t = "TestGenericStructMultiType" -> {"test_field_t", "test_field_u"}
      [] OTHER                            -> {}

\* The variants of each enum: kind, and the types of a tuple variant's
\* fields or the names of a struct variant's fields.
Unit(n)            == [name |-> n, kind |-> "unit",   tys |-> <<>>, names |-> <<>>]
Tuple(n, tys)      == [name |-> n, kind |-> "tuple",  tys |-> tys,  names |-> <<>>]
Struct(n, names)   == [name |-> n, kind |-> "struct", tys |-> <<>>, names |-> names]

Variants(e) ==
    CASE e = "TestEnum" ->
           { Unit("UnitVariant"),
             Tuple("TupleVariant", <<"i32">>),
             Tuple("TupleVariantMultiple", <<"i32", "String">>),
             Struct("StructVariant", <<"field1", "field2">>) }
      [] e = "Message" ->
           { Unit("Quit"),
             Struct("Move", <<"x", "y">>),
             Tuple("Write", <<"String">>),
             Tuple("ChangeColor", <<"i32", "i32", "i32">>) }
      [] OTHER -> {}

IsVariant(e, v) == \E d \in Variants(e) : d.name = v

VariantOf(e, v) == CHOOSE d \in Variants(e) : d.name = v

\* The items reached by the path  <T>::n : associated constants and
\* functions of a type, and the variants of an enum. i32::MAX and
\* String::new are the standard library's.
AssocKind(t, n) ==
    CASE t = "TestStruct" /\ n = "TEST_CONST" -> "const"
      [] t = "i32"        /\ n = "MAX"        -> "const"
      [] t = "String"     /\ n = "new"        -> "fn"
      [] IsVariant(t, n)                      -> VariantOf(t, n).kind
      [] OTHER                                -> "none"

\* Value namespace: what a bare identifier names at the invocation site.
\*   live   a local binding holding a value
\*   moved  a local binding whose value has been moved out (enumerated)
\*   fn     a function
\*   const  a constant item (enumerated)
Scope ==
    [ n \in {"test_variable", "test_fn", "owned_text", "moved_text", "TEST_LIMIT"} |->
        CASE n = "test_variable" -> [kind |-> "live",  ty |-> "i32",    text |-> "123"]
          [] n = "test_fn"       -> [kind |-> "fn",    ty |-> "fn",     text |-> ""]
          [] n = "owned_text"    -> [kind |-> "live",  ty |-> "String", text |-> "hello"]
          [] n = "moved_text"    -> [kind |-> "moved", ty |-> "String", text |-> ""]
          [] n = "TEST_LIMIT"    -> [kind |-> "const", ty |-> "i32",    text |-> "10"] ]

InScope(n) == n \in DOMAIN Scope

CopyTypes == {"i32", "&str"}

-----------------------------------------------------------------------------
(* What the compiler accepts.                                              *)

\* The type starting at token i names declared types, each with as many
\* generic arguments as it declares.
RECURSIVE WfTy(_, _), WfTyArgs(_, _, _)
WfTy(toks, i) ==
    IF toks[i] = "&" THEN WfTy(toks, i + 1)
    ELSE /\ toks[i] \in DOMAIN TypeArity
         /\ IF i + 1 <= Len(toks) /\ toks[i + 1] = "<"
            THEN WfTyArgs(toks, i + 2, TypeArity[toks[i]])
            ELSE TypeArity[toks[i]] = 0

WfTyArgs(toks, i, need) ==
    /\ need >= 1
    /\ WfTy(toks, i)
    /\ LET j == TyEnd(toks, i)
       IN  IF toks[j] = "," THEN WfTyArgs(toks, j + 1, need - 1) ELSE need = 1

TypeResolves(ty) == WfTy(ty, 1)

\* The type a field access or a method call on a value of type ty looks
\* into after dereferencing the references.
RECURSIVE DerefHead(_)
DerefHead(ty) == IF Head(ty) = "&" THEN DerefHead(Tail(ty)) ELSE Head(ty)

\* CanBorrow without the borrow check: any declared value is accepted.
CanBorrowDeclared(n) == InScope(n)

\* `&x` type-checks and borrow-checks: x is a value that can be borrowed.
CanBorrow(n) == InScope(n) /\ Scope[n].kind \in {"live", "fn", "const"}

\* The type of an argument expression, "none" when it does not type-check.
BaseType(t) ==
    IF t \in Literals THEN LiteralValue[t].ty
    ELSE IF InScope(t) /\ Scope[t].kind \in {"live", "const"} THEN Scope[t].ty
    ELSE "none"

ExprType(e) ==
    IF e = <<"..">> THEN "RangeFull"
    ELSE IF Len(e) = 1 THEN BaseType(e[1])
    ELSE IF Len(e) = 5 /\ e[3] = "to_string" /\ BaseType(e[1]) \in {"i32", "&str", "String"}
         THEN "String"
    ELSE "none"

\* The value of an argument expression.
ExprValue(e) ==
    IF e = <<"..">> THEN [ty |-> "RangeFull", text |-> ".."]
    ELSE LET b == IF e[1] \in Literals THEN LiteralValue[e[1]]
                  ELSE [ty |-> Scope[e[1]].ty, text |-> Scope[e[1]].text]
         IN  IF Len(e) = 1 THEN b ELSE [ty |-> "String", text |-> b.text]

\* format!("{:?}", v): strings are quoted, the rest is printed as it is.
Debug(v) ==
    IF v.ty \in {"&str", "String"} THEN "\"" \o v.text \o "\"" ELSE v.text

\* An argument that is a binding of a type that is not Copy: using it by
\* value moves it.
MovesBinding(e) ==
    /\ Len(e) = 1
    /\ InScope(e[1])
    /\ Scope[e[1]].kind = "live"
    /\ Scope[e[1]].ty \notin CopyTypes

RECURSIVE JoinWith(_, _)
JoinWith(strs, sep) ==
    IF strs = <<>> THEN ""
    ELSE IF Len(strs) = 1 THEN strs[1]
    ELSE strs[1] \o sep \o JoinWith(Tail(strs), sep)

-----------------------------------------------------------------------------
(* name_of_type!                                                           *)

\* ($t: ty)
name_of_type_pattern(toks) == MatchTyToEnd(toks, 1)

\* let _ = || { let _: $t; };
name_of_type_checks(ty) == TypeResolves(ty)

\* stringify!($t)
name_of_type_value(ty, p) == StringifyTy(ty, p)

-----------------------------------------------------------------------------
(* name_of!                                                                *)

\* The rules in source order.
NameOfRules == <<"binding", "type", "field", "const">>

\* ($n: ident)
name_of_binding_pattern(toks) ==
    IF Len(toks) >= 1 /\ IsIdent(toks[1])
    THEN IF Len(toks) = 1 THEN Match ELSE Fail
    ELSE Fail

\* (type $t: ty)
name_of_ty_pattern(toks) ==
    IF Len(toks) >= 1 /\ toks[1] = "type"
    THEN MatchTyToEnd(toks, 2)
    ELSE Fail

\* ($n: ident in $t: ty)
name_of_field_pattern(toks) ==
    IF Len(toks) >= 2 /\ IsIdent(toks[1]) /\ toks[2] = "in"
    THEN MatchTyToEnd(toks, 3)
    ELSE Fail

\* (const $n: ident in $t: ty)
name_of_const_pattern(toks) ==
    IF Len(toks) >= 3 /\ toks[1] = "const" /\ IsIdent(toks[2]) /\ toks[3] = "in"
    THEN MatchTyToEnd(toks, 4)
    ELSE Fail

name_of_pattern(r, toks) ==
    CASE r = "binding" -> name_of_binding_pattern(toks)
      [] r = "type"    -> name_of_ty_pattern(toks)
      [] r = "field"   -> name_of_field_pattern(toks)
      [] r = "const"   -> name_of_const_pattern(toks)

\* let _ = || { let _ = &$n; };
name_of_binding_checks(n) == IsName(n) /\ CanBorrow(n)

\* $crate::name_of_type!($t)
name_of_ty_checks(ty) ==
    name_of_type_pattern(ty) = Match /\ name_of_type_checks(ty)

\* let _ = |f: $t| { let _ = &f.$n; };
\* The field is looked up through the references of $t.
name_of_field_checks(n, ty) ==
    /\ TypeResolves(ty)
    /\ IsName(n)
    /\ n \in Fields(DerefHead(ty))

\* let _ = || { let _ = &<$t>::$n; };
\* The path names any associated value of $t: a constant, a function, a
\* unit variant or the constructor of a tuple variant.
name_of_const_checks(n, ty) ==
    /\ TypeResolves(ty)
    /\ IsName(n)
    /\ AssocKind(Head(ty), n) \in {"const", "fn", "unit", "tuple"}

\* The compiler's verdict on the expansion of each rule.
name_of_checks(r, toks) ==
    CASE r = "binding" -> name_of_binding_checks(toks[1])
      [] r = "type"    -> name_of_ty_checks(SubSeq(toks, 2, Len(toks)))
      [] r = "field"   -> name_of_field_checks(toks[1], SubSeq(toks, 3, Len(toks)))
      [] r = "const"   -> name_of_const_checks(toks[2], SubSeq(toks, 4, Len(toks)))

\* The string each rule evaluates to: stringify!($n), or the value of
\* name_of_type!($t).
name_of_value(r, s, p) ==
    CASE r = "binding" -> StringifyIdent(Tokens(s)[1])
      [] r = "type"    -> name_of_type_value(AfterToken(s, 1), p)
      [] r = "field"   -> StringifyIdent(Tokens(s)[1])
      [] r = "const"   -> StringifyIdent(Tokens(s)[2])

-----------------------------------------------------------------------------
(* tag_of!                                                                 *)

\* The rules in source order.
TagOfRules == <<"unit", "tuple_range", "tuple_values", "struct">>

\* $enum_name:ident :: $variant:ident, then a group opened by `open` that
\* ends the input.
TagOfHead(toks, open) ==
    /\ Len(toks) >= 5
    /\ IsIdent(toks[1]) /\ toks[2] = "::" /\ IsIdent(toks[3])
    /\ toks[4] = open
    /\ CloseOf(toks, 4) = Len(toks)

\* tag_of_unit_pattern without the end of the input after the variant.
tag_of_unit_pattern_prefix(toks) ==
    IF /\ Len(toks) >= 3
       /\ IsIdent(toks[1]) /\ toks[2] = "::" /\ IsIdent(toks[3])
    THEN Match ELSE Fail

\* ($enum_name:ident :: $variant:ident)
tag_of_unit_pattern(toks) ==
    IF /\ Len(toks) = 3
       /\ IsIdent(toks[1]) /\ toks[2] = "::" /\ IsIdent(toks[3])
    THEN Match ELSE Fail

\* ($enum_name:ident :: $variant:ident ( .. ))
tag_of_tuple_range_pattern(toks) ==
    IF TagOfHead(toks, "(") /\ Len(toks) = 6 /\ toks[5] = ".."
    THEN Match ELSE Fail

\* ($enum_name:ident :: $variant:ident ( $($value:expr),+ ))
tag_of_tuple_values_pattern(toks) ==
    IF TagOfHead(toks, "(")
    THEN MatchExprList(toks, 5, Len(toks) - 1)
    ELSE Fail

\* ($enum_name:ident :: $variant:ident { .. })
tag_of_struct_pattern(toks) ==
    IF TagOfHead(toks, "{") /\ Len(toks) = 6 /\ toks[5] = ".."
    THEN Match ELSE Fail

tag_of_pattern(r, toks) ==
    CASE r = "unit"         -> tag_of_unit_pattern(toks)
      [] r = "tuple_range"  -> tag_of_tuple_range_pattern(toks)
      [] r = "tuple_values" -> tag_of_tuple_values_pattern(toks)
      [] r = "struct"       -> tag_of_struct_pattern(toks)

\* The argument expressions of the value-bearing form.
TagOfArgs(toks) == SplitExprs(toks, 5, Len(toks) - 1)

\* let _ = $enum_name::$variant;
\* A path used as a value: a unit variant, the constructor of a tuple
\* variant, an associated constant or function.
tag_of_unit_checks(e, v) ==
    /\ IsName(e) /\ IsName(v)
    /\ e \in DOMAIN TypeArity
    /\ AssocKind(e, v) \in {"const", "fn", "unit", "tuple"}

\* match None::<$enum_name> { Some($enum_name::$variant(..)) => {} _ => {} }
tag_of_tuple_range_checks(e, v) ==
    /\ IsName(e) /\ IsName(v)
    /\ e \in DOMAIN TypeArity /\ TypeArity[e] = 0
    /\ AssocKind(e, v) = "tuple"

\* tag_of_struct_checks with a match arm that names no variant.
tag_of_struct_checks_enum_only(e, v) ==
    /\ IsName(e) /\ IsName(v)
    /\ e \in DOMAIN TypeArity /\ TypeArity[e] = 0

\* match None::<$enum_name> { Some($enum_name::$variant { .. }) => {} _ => {} }
\* A braced pattern with `..` is accepted for a variant of any kind.
tag_of_struct_checks(e, v) ==
    /\ IsName(e) /\ IsName(v)
    /\ e \in DOMAIN TypeArity /\ TypeArity[e] = 0
    /\ AssocKind(e, v) \in {"unit", "tuple", "struct"}

\* let _ = || { let _ = $enum_name::$variant($($value,)*); };
\* The closure takes by move the bindings its body moves.
tag_of_closure_checks(e, v, args) ==
    /\ IsName(e) /\ IsName(v)
    /\ AssocKind(e, v) = "tuple"
    /\ Len(args) = Len(VariantOf(e, v).tys)
    /\ \A k \in 1..Len(args) : ExprType(args[k]) = VariantOf(e, v).tys[k]

\* std::vec![$(std::format!("{:?}", $value)),+]
\* Each argument is used again, after the closure was built.
tag_of_format_checks(args) ==
    \A k \in 1..Len(args) : ExprType(args[k]) # "none" /\ ~MovesBinding(args[k])

tag_of_tuple_values_checks(e, v, args) ==
    tag_of_closure_checks(e, v, args) /\ tag_of_format_checks(args)

\* The compiler's verdict on the expansion of each rule.
tag_of_checks(r, toks) ==
    CASE r = "unit"         -> tag_of_unit_checks(toks[1], toks[3])
      [] r = "tuple_range"  -> tag_of_tuple_range_checks(toks[1], toks[3])
      [] r = "tuple_values" -> tag_of_tuple_values_checks(toks[1], toks[3], TagOfArgs(toks))
      [] r = "struct"       -> tag_of_struct_checks(toks[1], toks[3])

\* What running  let _ = || { let _ = $enum_name::$variant($($value,)*); };
\* evaluates: the statement builds the closure and drops it, the body is
\* not run. `args` are the arguments evaluated, in order, and `built` the
\* number of variants constructed.
tag_of_closure_called(args) ==
    [args |-> [k \in 1..Len(args) |-> k], built |-> 1]

tag_of_closure_run(args) == [args |-> <<>>, built |-> 0]

\* The element of  std::vec![$(std::format!("{:?}", $value)),+]  that is
\* evaluated after `done` of them: the elements of an array expression
\* are evaluated from left to right.
tag_of_vec_next(done) == done + 1

\* std::format!("{:?}", $value)  for the k-th argument.
tag_of_format_arg(args, k) == Debug(ExprValue(args[k]))

\* std::format!("{}({})", variant_name, values.join(", "))
tag_of_assemble(v, vals) ==
    StringifyIdent(v) \o "(" \o JoinWith(vals, ", ") \o ")"

\* let values = std::vec![$(std::format!("{:?}", $value)),+];
\* std::format!("{}({})", variant_name, values.join(", "))
tag_of_tuple_values_value(v, args) ==
    tag_of_assemble(v, [k \in 1..Len(args) |-> tag_of_format_arg(args, k)])

\* tag_of_name_value stringifying the whole path instead of the variant.
tag_of_path_value(e, v) == StringifyIdent(e) \o "::" \o StringifyIdent(v)

\* stringify!($variant)
tag_of_name_value(e, v) == StringifyIdent(v)

\* The string each rule evaluates to.
tag_of_value(r, toks) ==
    IF r = "tuple_values"
    THEN tag_of_tuple_values_value(toks[3], TagOfArgs(toks))
    ELSE tag_of_name_value(toks[1], toks[3])

-----------------------------------------------------------------------------
(* The macro_rules! matcher and the three macros as one table.             *)

Macros == {"name_of", "name_of_type", "tag_of"}

RulesOf(m) ==
    CASE m = "name_of"      -> NameOfRules
      [] m = "name_of_type" -> <<"type">>
      [] m = "tag_of"       -> TagOfRules

PatternOf(m, r, toks) ==
    CASE m = "name_of"      -> name_of_pattern(r, toks)
      [] m = "name_of_type" -> name_of_type_pattern(toks)
      [] m = "tag_of"       -> tag_of_pattern(r, toks)

ChecksOf(m, r, toks) ==
    CASE m = "name_of"      -> name_of_checks(r, toks)
      [] m = "name_of_type" -> name_of_type_checks(toks)
      [] m = "tag_of"       -> tag_of_checks(r, toks)

ValueOf(m, r, s, p) ==
    CASE m = "name_of"      -> name_of_value(r, s, p)
      [] m = "name_of_type" -> name_of_type_value(s, p)
      [] m = "tag_of"       -> tag_of_value(r, Tokens(s))

NoRule == "none"

\* The rules are tried in the given order: the first that matches is
\* selected, a rule that fails hands over to the next, a fragment that
\* does not parse ends the expansion.
RECURSIVE SelectRule(_, _, _)
SelectRule(m, order, toks) ==
    IF order = <<>> THEN NoRule
    ELSE LET got == PatternOf(m, Head(order), toks)
         IN  IF got = Match THEN Head(order)
             ELSE IF got = Abort THEN NoRule
             ELSE SelectRule(m, Tail(order), toks)

-----------------------------------------------------------------------------
(* The enumerated invocations.                                             *)

Generic1(h, a)    == <<h, "<">> \o a \o <<">">>
Generic2(h, a, b) == <<h, "<">> \o a \o <<",">> \o b \o <<">">>

\* Generic arguments nested up to depth d.
RECURSIVE ArgTypes(_)
ArgTypes(d) ==
    IF d = 0 THEN {<<"i32">>, <<"String">>}
    ELSE ArgTypes(d - 1) \cup {Generic1("TestGenericStruct", a) : a \in ArgTypes(d - 1)}

AtomTypes == {<<n>> : n \in DOMAIN TypeArity \cup {"Missing"}}

GenericHeads == {"TestGenericStruct", "TestGenericStructMultiType", "TestStruct"}

GenericTypes ==
    LET A == ArgTypes(MaxNest - 1)
    IN  {Generic1(h, a) : h \in GenericHeads, a \in A}
          \cup {Generic2(h, a, b) : h \in GenericHeads, a \in A, b \in A}

RefTypes == {<<"&">> \o t : t \in AtomTypes \cup {Generic1("TestGenericStruct", <<"i32">>)}}

TypeInputs == AtomTypes \cup GenericTypes \cup RefTypes

\* The ways a caller lays out the same tokens.
Styles == {"tight", "canonical", "spaced", "wide"}

RECURSIVE Spell(_, _)
Spell(toks, style) ==
    IF toks = <<>> THEN <<>>
    ELSE LET t    == Head(toks)
             rest == Spell(Tail(toks), style)
         IN  CASE style = "tight"     -> <<t>> \o rest
               [] style = "canonical" ->
                    IF t = "," THEN <<t, Blank>> \o rest ELSE <<t>> \o rest
               [] style = "spaced" ->
                    IF t = "," THEN <<t, Blank>> \o rest
                    ELSE IF t = "<" THEN <<t, Blank>> \o rest
                    ELSE IF t = ">" THEN <<Blank, t>> \o rest
                    ELSE <<t>> \o rest
               [] style = "wide" ->
                    IF t = "," THEN <<t, Blank, Blank>> \o rest
                    ELSE IF t = "<" THEN <<t, Blank>> \o rest
                    ELSE IF t = ">" THEN <<Blank, t>> \o rest
                    ELSE <<t>> \o rest

IdentInputs == DOMAIN Scope \cup {"undeclared", "TestStruct", "type"}

FieldInputs == {"test_field", "test_field_t", "test_field_u", "missing_field", "TEST_CONST"}

ConstInputs == {"TEST_CONST", "MAX", "new", "UnitVariant", "TupleVariant",
                "StructVariant", "test_field", "MISSING"}

\* Enum paths: every variant of the declared enums, and paths that name
\* no variant.
PathInputs ==
    {<<e, d.name>> : e \in {"TestEnum"}, d \in Variants("TestEnum")}
      \cup {<<e, d.name>> : e \in {"Message"}, d \in Variants("Message")}
      \cup { <<"TestEnum", "Missing">>, <<"Message", "Missing">>,
             <<"Missing", "UnitVariant">>, <<"Missing", "TupleVariant">>,
             <<"String", "new">>, <<"TestStruct", "TEST_CONST">> }

ArgExprs ==
    { <<"42">>, <<"\"test\"">>, <<"\"test\"", ".", "to_string", "(", ")">>,
      <<"test_variable">>, <<"owned_text">>, <<"..">> }

\* Comma-separated argument lists of 1..n expressions.
RECURSIVE ArgLists(_)
ArgLists(n) ==
    IF n = 1 THEN {Spell(a, "tight") : a \in ArgExprs}
    ELSE ArgLists(n - 1)
           \cup {l \o <<",", Blank>> \o a : l \in ArgLists(n - 1), a \in ArgExprs}

PathSrc(p) == <<p[1], "::", p[2]>>

VariantInputs ==
    {PathSrc(p) : p \in PathInputs}
      \cup {PathSrc(p) \o <<"(", "..", ")">> : p \in PathInputs}
      \cup {PathSrc(p) \o <<Blank, "{", Blank, "..", Blank, "}">> : p \in PathInputs}
      \cup {PathSrc(p) \o <<"(">> \o l \o <<")">> : p \in PathInputs, l \in ArgLists(MaxArgs)}

\* Inputs no rule is written for.
MalformedInputs ==
    { <<>>,
      <<"TestEnum", "::", "TupleVariant", "(", ")">>,
      <<"TestEnum", "::", "TupleVariant", "(", "42", ",", ")">>,
      <<"TestEnum", "::", "TupleVariant", "(", "42">>,
      <<"TestEnum", "::", "TupleVariant", "(", "42", ".", "7", ")">>,
      <<"type", Blank, "TestGenericStruct", "<", "i32">>,
      <<"type", Blank, "in", Blank, "TestStruct">>,
      <<"const", Blank, "in", Blank, "in", Blank, "TestStruct">>,
      <<"test_field", Blank, "in">>,
      <<"test_variable", Blank, "test_fn">> }

NameOfInputs ==
    {<<n>> : n \in IdentInputs}
      \cup {<<"type", Blank>> \o Spell(t, st) : t \in TypeInputs, st \in Styles}
      \cup {<<f, Blank, "in", Blank>> \o Spell(t, "canonical") :
               f \in FieldInputs, t \in TypeInputs}
      \cup {<<"const", Blank, c, Blank, "in", Blank>> \o Spell(t, "canonical") :
               c \in ConstInputs, t \in TypeInputs}
      \cup VariantInputs
      \cup MalformedInputs

NameOfTypeInputs ==
    {Spell(t, st) : t \in TypeInputs, st \in Styles} \cup MalformedInputs

TagOfInputs == VariantInputs \cup MalformedInputs

InputsOf(m) ==
    CASE m = "name_of"      -> NameOfInputs
      [] m = "name_of_type" -> NameOfTypeInputs
      [] m = "tag_of"       -> TagOfInputs

-----------------------------------------------------------------------------
(* The compilation and evaluation of one invocation.                       *)

Init ==
    /\ printer \in Printers
    /\ mac = "none"
    /\ src = <<>>
    /\ pc = "idle"
    /\ rule = NoRule
    /\ value = ""
    /\ values = <<>>
    /\ evaluated = <<>>
    /\ constructed = 0

\* The caller writes  m!( s ).
Invoke ==
    /\ pc = "idle"
    /\ \E m \in Macros : \E s \in InputsOf(m) :
          /\ mac' = m
          /\ src' = s
    /\ pc' = "invoked"
    /\ UNCHANGED <<printer, rule, value, values, evaluated, constructed>>

\* Macro expansion: the first rule whose pattern matches is selected.
Expand ==
    /\ pc = "invoked"
    /\ LET toks == Tokens(src)
           r    == IF Balanced(toks) THEN SelectRule(mac, RulesOf(mac), toks) ELSE NoRule
       IN  /\ rule' = r
           /\ pc' = IF r = NoRule THEN "error" ELSE "expanded"
    /\ UNCHANGED <<printer, mac, src, value, values, evaluated, constructed>>

\* Name resolution, type checking and borrow checking of the expansion.
Validate ==
    /\ pc = "expanded"
    /\ pc' = IF ChecksOf(mac, rule, Tokens(src)) THEN "compiled" ELSE "error"
    /\ UNCHANGED <<printer, mac, src, rule, value, values, evaluated, constructed>>

\* The expansion whose result is computed from the argument values.
ValueBearing == mac = "tag_of" /\ rule = "tuple_values"

\* The result expression of the expansion is evaluated: a string literal
\* in every rule but the value-bearing one.
Evaluate ==
    /\ pc = "compiled"
    /\ ~ValueBearing
    /\ value' = ValueOf(mac, rule, src, printer)
    /\ pc' = "done"
    /\ UNCHANGED <<printer, mac, src, rule, values, evaluated, constructed>>

\* let _ = || { let _ = $enum_name::$variant($($value,)*); };
BuildClosure ==
    /\ pc = "compiled"
    /\ ValueBearing
    /\ LET ran == tag_of_closure_run(TagOfArgs(Tokens(src)))
       IN  /\ evaluated' = evaluated \o ran.args
           /\ constructed' = constructed + ran.built
    /\ pc' = "running"
    /\ UNCHANGED <<printer, mac, src, rule, value, values>>

\* One element of  std::vec![$(std::format!("{:?}", $value)),+] : the
\* argument is evaluated and its Debug text is pushed.
FormatArg ==
    /\ pc = "running"
    /\ LET args == TagOfArgs(Tokens(src))
           k    == tag_of_vec_next(Len(values))
       IN  /\ k <= Len(args)
           /\ evaluated' = Append(evaluated, k)
           /\ values' = Append(values, tag_of_format_arg(args, k))
    /\ UNCHANGED <<printer, mac, src, pc, rule, value, constructed>>

\* std::format!("{}({})", variant_name, values.join(", "))
Assemble ==
    /\ pc = "running"
    /\ Len(values) = Len(TagOfArgs(Tokens(src)))
    /\ value' = tag_of_assemble(Tokens(src)[3], values)
    /\ pc' = "done"
    /\ UNCHANGED <<printer, mac, src, rule, values, evaluated, constructed>>

Next ==
    \/ Invoke
    \/ Expand
    \/ Validate
    \/ Evaluate
    \/ BuildClosure
    \/ FormatArg
    \/ Assemble

Spec == Init /\ [][Next]_vars

TypeOK ==
    /\ printer \in Printers
    /\ mac \in Macros \cup {"none"}
    /\ pc \in {"idle", "invoked", "expanded", "compiled", "running", "done", "error"}
    /\ (pc \in {"expanded", "compiled", "running", "done"}) => rule # NoRule
    /\ (pc = "running") => ValueBearing
    /\ constructed \in Nat
    /\ Len(values) <= MaxArgs
    /\ (pc # "done") => value = ""

-----------------------------------------------------------------------------
(* Properties.                                                             *)

Toks == Tokens(src)

\* Compilation has ended, with a string or with an error.
Finished == pc \in {"done", "error"}

\* The whole pipeline on an invocation of macro m: whether it compiles and
\* the string it gives.
Outcome(m, s) ==
    LET toks == Tokens(s)
        r    == IF Balanced(toks) THEN SelectRule(m, RulesOf(m), toks) ELSE NoRule
    IN  IF r # NoRule /\ ChecksOf(m, r, toks)
        THEN [ok |-> TRUE,  value |-> ValueOf(m, r, s, printer)]
        ELSE [ok |-> FALSE, value |-> ""]

\* The outcome of the invocation of this behaviour.
ThisOutcome == [ok |-> pc = "done", value |-> value]

\* ---- C1 ----

BindingForm == mac = "name_of" /\ Len(Toks) = 1 /\ IsIdent(Toks[1])

KindOf(x) == IF InScope(x) THEN Scope[x].kind ELSE "none"

\* C1 as stated: name_of!(x) compiles if and only if x names a binding or a
\* function in scope, and its value is then the source spelling of x.
C1_AsStated ==
    (BindingForm /\ Finished) =>
        /\ (pc = "done") <=> (KindOf(Toks[1]) \in {"live", "moved", "fn"})
        /\ (pc = "done") => value = Spelling(src)

\* C1 (amended): name_of!(x) compiles exactly when x names, at the
\* invocation site, a value that can be borrowed there: a local binding
\* that holds its value, a function, and also a constant item. It does not
\* compile for an undeclared name, for a name that is only a type, or for a
\* binding whose value has been moved out. When it compiles its value is
\* exactly the source spelling of x.
C1_BindingName ==
    (BindingForm /\ Finished) =>
        /\ (pc = "done") <=> (KindOf(Toks[1]) \in {"live", "fn", "const"})
        /\ (pc = "done") => value = Spelling(src)

C1_Witness ==
    /\ BindingForm /\ pc = "done"
    /\ KindOf(Toks[1]) = "fn"
    /\ value = "test_fn"

\* ---- C2 ----

\* The invocation is name_of!(type T) or name_of_type!(T).
TypeForm ==
    \/ mac = "name_of_type"
    \/ mac = "name_of" /\ Len(Toks) >= 1 /\ Toks[1] = "type"

\* The type expression as the caller typed it.
TypePart == IF mac = "name_of" THEN SubSeq(src, 3, Len(src)) ELSE src

\* The outcome of the other form on the same type expression.
OtherTypeForm ==
    IF mac = "name_of"
    THEN Outcome("name_of_type", TypePart)
    ELSE Outcome("name_of", <<"type", Blank>> \o TypePart)

Canonical(ty) == ty = Spell(Tokens(ty), "canonical")

\* A run of blanks in the text.
HasBlankRun(ty) == \E i \in 1..(Len(ty) - 1) : ty[i] = Blank /\ ty[i + 1] = Blank

OwnFields(ty) == IF Head(ty) = "&" THEN {} ELSE Fields(Head(ty))

\* C3: name_of!(f in S) gives "f" when f is a declared field of S, and does
\* not compile when f is not a declared field of S itself.
C3_FieldOfS ==
    (mac = "name_of" /\ rule = "field" /\ Finished) =>
        LET f  == Toks[1]
            ty == SubSeq(Toks, 3, Len(Toks))
        IN  IF TypeResolves(ty) /\ f \in OwnFields(ty)
            THEN pc = "done" /\ value = f
            ELSE pc = "error"

\* ---- C4 ----

\* C4: name_of!(const C in S) gives "C" when C is an associated constant of
\* S, and does not compile when C is anything else, another kind of
\* associated item of S included.
C4_ConstOfS ==
    (mac = "name_of" /\ rule = "const" /\ Finished) =>
        LET c  == Toks[2]
            ty == SubSeq(Toks, 4, Len(Toks))
        IN  IF TypeResolves(ty) /\ AssocKind(Head(ty), c) = "const"
            THEN pc = "done" /\ value = c
            ELSE pc = "error"

\* ---- C5 ----

\* The arguments are as many as the fields of the tuple variant e::v, and
\* each has the type of its field.
ArgsFit(e, v, args) ==
    /\ AssocKind(e, v) = "tuple"
    /\ Len(VariantOf(e, v).tys) >= 1
    /\ Len(args) = Len(VariantOf(e, v).tys)
    /\ \A k \in 1..Len(args) : ExprType(args[k]) = VariantOf(e, v).tys[k]

\* C5: tag_of!(E::V(a1, ..., an)) with arguments that fit the fields of the
\* tuple variant (literals, temporaries or bindings, Copy or not) compiles
\* and gives "V(" debug(a1) ", " ... ", " debug(an) ")".
C5_ValuesRendered ==
    (mac = "tag_of" /\ rule = "tuple_values" /\ Finished
       /\ ArgsFit(Toks[1], Toks[3], TagOfArgs(Toks))) =>
        /\ pc = "done"
        /\ value = Toks[3] \o "("
                     \o JoinWith([k \in 1..Len(TagOfArgs(Toks)) |->
                                     Debug(ExprValue(TagOfArgs(Toks)[k]))], ", ")
                     \o ")"

\* ---- C6 ----

RangeForm(toks)  == Len(toks) = 6 /\ SubSeq(toks, 4, 6) = <<"(", "..", ")">>
BracedForm(toks) == Len(toks) = 6 /\ SubSeq(toks, 4, 6) = <<"{", "..", "}">>

\* A name-only form written for a variant of the kind the form is for.
NameOnlyCase ==
    /\ mac = "tag_of"
    /\ Len(Toks) >= 3 /\ Toks[2] = "::"
    /\ \/ Len(Toks) = 3   /\ AssocKind(Toks[1], Toks[3]) = "unit"
       \/ RangeForm(Toks)  /\ AssocKind(Toks[1], Toks[3]) = "tuple"
       \/ BracedForm(Toks) /\ AssocKind(Toks[1], Toks[3]) = "struct"

\* C6: tag_of!(E::V) for a unit variant, tag_of!(E::V(..)) for a tuple
\* variant and tag_of!(E::V { .. }) for a struct variant compile and give
\* exactly "V", whatever the number and the names of the fields of V.
C6_NameOnly ==
    (NameOnlyCase /\ Finished) => (pc = "done" /\ value = Toks[3])

C6_Witness ==
    /\ NameOnlyCase /\ pc = "done"
    /\ RangeForm(Toks)
    /\ Len(VariantOf(Toks[1], Toks[3]).tys) = 3
    /\ value = "ChangeColor"

\* ---- C7 ----

NamesIn(toks) == {toks[i] : i \in {j \in 1..Len(toks) : IsName(toks[j])}}

TypesDeclared(ty) == NamesIn(ty) \subseteq DOMAIN TypeArity

\* Every entity the invocation refers to is declared at the invocation
\* site: the binding, the types, the field of the type, the associated
\* item of the type, the enum and its variant, the bindings among the
\* arguments.
ReferencedExist(m, r, toks) ==
    CASE m = "name_of_type" -> TypesDeclared(toks)
      [] m = "name_of" /\ r = "binding" ->
           toks[1] \in DOMAIN Scope \cup DOMAIN TypeArity
      [] m = "name_of" /\ r = "type" ->
           TypesDeclared(SubSeq(toks, 2, Len(toks)))
      [] m = "name_of" /\ r = "field" ->
           LET ty == SubSeq(toks, 3, Len(toks))
           IN  TypesDeclared(ty) /\ toks[1] \in Fields(DerefHead(ty))
      [] m = "name_of" /\ r = "const" ->
           LET ty == SubSeq(toks, 4, Len(toks))
           IN  TypesDeclared(ty) /\ AssocKind(Head(ty), toks[2]) # "none"
      [] m = "tag_of" ->
           /\ toks[1] \in DOMAIN TypeArity
           /\ AssocKind(toks[1], toks[3]) # "none"
           /\ r = "tuple_values" =>
                \A k \in 1..Len(TagOfArgs(toks)) :
                    IsName(TagOfArgs(toks)[k][1]) => InScope(TagOfArgs(toks)[k][1])

\* C7: in every shape of name_of!, name_of_type! and tag_of!, an invocation
\* that refers to an entity that does not exist does not compile, and an
\* invocation that does not compile gives no string.
C7_MissingEntityFails ==
    /\ (rule # NoRule /\ ~ReferencedExist(mac, rule, Toks)) => pc \notin {"compiled", "done"}
    /\ (pc # "done") => value = ""

C7_Witness ==
    /\ mac = "tag_of" /\ rule = "tuple_range" /\ pc = "error"
    /\ Toks[1] = "TestEnum"
    /\ AssocKind(Toks[1], Toks[3]) = "none"
    /\ value = ""

\* ---- C8 ----

\* C8: name_of! on an enum variant, in the unit, the range, the struct and
\* the explicit-value form, matches a rule and expands to what tag_of!
\* gives for that form.
C8_NameOfLikeTagOf ==
    (/\ mac = "name_of" /\ Finished
     /\ Len(Toks) >= 3 /\ IsVariant(Toks[1], Toks[3])
     /\ Outcome("tag_of", src).ok) =>
        ThisOutcome = Outcome("tag_of", src)

\* ---- C9 ----

\* The form written is not the one of the declared kind of the variant.
Mismatch(r, d, toks) ==
    \/ r = "unit"         /\ d.kind \in {"tuple", "struct"}
    \/ r = "tuple_range"  /\ d.kind \in {"unit", "struct"}
    \/ r = "struct"       /\ d.kind \in {"unit", "tuple"}
    \/ r = "tuple_values" /\ d.kind = "tuple" /\ Len(TagOfArgs(toks)) # Len(d.tys)

\* C9: tag_of! does not compile when the form written does not match the
\* declared shape of the variant: the unit form on a tuple or struct
\* variant, E::V(..) on a unit or struct variant, E::V { .. } on a unit or
\* tuple variant, E::V(a1..ak) on a tuple variant that has not k fields.
C9_ShapeMismatchFails ==
    (/\ mac = "tag_of" /\ rule # NoRule /\ Finished
     /\ IsVariant(Toks[1], Toks[3])
     /\ Mismatch(rule, VariantOf(Toks[1], Toks[3]), Toks)) =>
        pc = "error"

\* ---- C10 ----

\* The rules of a macro in every order.
Orders(m) ==
    LET rs == RulesOf(m)
    IN  {[i \in 1..Len(rs) |-> rs[f[i]]] : f \in Permutations(1..Len(rs))}

\* The rules whose pattern matches the input.
Matching(m, toks) ==
    {r \in {RulesOf(m)[i] : i \in 1..Len(RulesOf(m))} : PatternOf(m, r, toks) = Match}

IndexIn(o, r) == CHOOSE i \in 1..Len(o) : o[i] = r

\* The macro matcher accepted the input: a rule was selected.
Accepted == mac \in {"name_of", "tag_of"} /\ rule # NoRule

\* C10 as stated: an accepted input matches the pattern of exactly one
\* rule, so the rules in any other order select the same rule.
C10_AsStated ==
    Accepted =>
        /\ Cardinality(Matching(mac, Toks)) = 1
        /\ \A o \in Orders(mac) : SelectRule(mac, o, Toks) = rule

\* C10 (amended): an accepted input matches the pattern of exactly one
\* rule and selects it in every order of the rules, except E::V(..) in
\* tag_of!: it matches the wildcard-tuple rule and also the value-bearing
\* rule (.. is an expression), the wildcard-tuple rule is selected because
\* it is written first, and an order with the value-bearing rule first
\* selects the value-bearing rule.
C10_OneRuleButRange ==
    Accepted =>
        IF mac = "tag_of" /\ RangeForm(Toks)
        THEN /\ Matching(mac, Toks) = {"tuple_range", "tuple_values"}
             /\ rule = "tuple_range"
             /\ \A o \in Orders(mac) :
                  SelectRule(mac, o, Toks) =
                     IF IndexIn(o, "tuple_range") < IndexIn(o, "tuple_values")
                     THEN "tuple_range" ELSE "tuple_values"
        ELSE /\ Cardinality(Matching(mac, Toks)) = 1
             /\ \A o \in Orders(mac) : SelectRule(mac, o, Toks) = rule

C10_Witness ==
    /\ mac = "tag_of" /\ rule = "tuple_range" /\ pc = "done"
    /\ value = "TupleVariant"
    /\ \E o \in Orders(mac) : SelectRule(mac, o, Toks) = "tuple_values"

\* ---- C11 ----

\* The arguments of the value-bearing invocation of this behaviour.
Args == TagOfArgs(Toks)

\* The value-bearing expansion is compiled and runs, or has run.
Executing == ValueBearing /\ pc \in {"compiled", "running", "done"}

\* 1, 2, ..., n
UpTo(n) == [k \in 1..n |-> k]

\* C11: in every execution of the expansion of tag_of!(E::V(a1, ..., an))
\* the arguments evaluated so far are a1, a2, ... in this order, each once,
\* one for each text pushed to `values`; the closure is built and never
\* called, so no variant is constructed and nothing is evaluated before the
\* first element of the vec!; the result string exists only once all n
\* arguments have been evaluated, and then each has been evaluated exactly
\* once. Outside such an execution nothing is evaluated at all.
C11_EvaluatedOnceInOrder ==
    /\ constructed = 0
    /\ evaluated = UpTo(Len(values))
    /\ Executing =>
          /\ Len(evaluated) <= Len(Args)
          /\ (pc = "compiled") => evaluated = <<>>
          /\ (value # "") => pc = "done"
          /\ (pc = "done") =>
                /\ evaluated = UpTo(Len(Args))
                /\ value = tag_of_assemble(Toks[3], values)
                /\ \A k \in 1..Len(Args) : values[k] = Debug(ExprValue(Args[k]))
    /\ ~Executing => evaluated = <<>>

\* A run of tag_of!(E::V(a1, a2, a3)) whose neighbouring arguments differ
\* has ended: they were evaluated as a1, a2, a3.
C11_Witness ==
    /\ Executing
    /\ pc = "done"
    /\ Len(Args) = 3
    /\ Args[1] # Args[2] /\ Args[2] # Args[3]
    /\ values[1] # values[2] /\ values[2] # values[3]
    /\ evaluated = <<1, 2, 3>>
    /\ constructed = 0

=============================================================================
